---- MODULE Spec2Model ----
(***************************************************************************)
(* A model of uloop.c, the libubox event loop: the timeout list, the fd    *)
(* batch and its edge-trigger stack, the signal bridge, the handler        *)
(* installation policy, and uloop_run_timeout with nested calls.           *)
(*                                                                         *)
(* The C call stack is the variable `stack`: one frame per active          *)
(* uloop_run_timeout call ("run") and one per user callback that is        *)
(* running ("tcb": a timeout callback, "fdcb": an fd callback, which also  *)
(* holds the struct uloop_fd_stack entry of uloop_run_events).  A signal   *)
(* handler runs between any two steps.                                     *)
(***************************************************************************)
EXTENDS Integers, Sequences, FiniteSets, TLC

\* ---------------------------------------------------------------- bounds
MaxDepth == 2        \* nested uloop_run_timeout calls
MaxTicks == 3        \* the monotonic clock stops after this many ticks
MaxSignals == 1      \* SIGINT/SIGTERM deliveries
MaxCbOps == 1        \* loop calls one user callback invocation makes
MaxRuns == 1         \* uloop_run_timeout calls of the main program
MaxWakes == 2        \* bytes the self-pipe holds

\* ------------------------------------------------------ program constants
SIGINT == 2
SIGTERM == 15
SIGCHLD == 17
SIGPIPE == 13
SIGUSR1 == 10

ULOOP_READ == "READ"
ULOOP_WRITE == "WRITE"
ULOOP_EDGE_TRIGGER == "EDGE_TRIGGER"
ULOOP_BLOCKING == "BLOCKING"
ULOOP_EVENT_BUFFERED == "BUFFERED"
ULOOP_EVENT_MASK == {ULOOP_READ, ULOOP_WRITE}
\* the sign bit of an int event word: uloop_fd_stack_event tests events < 0
SignBit == "SIGN"
MinusOne == {ULOOP_READ, ULOOP_WRITE, ULOOP_EDGE_TRIGGER, ULOOP_BLOCKING,
             ULOOP_EVENT_BUFFERED, SignBit}

NULL == "NULL"

\* one tick of the model clock, in milliseconds
TickMs == 1000 \div 2

\* ------------------------------------------------------------- C integers
\* C's / and % truncate toward zero
CDiv(a, b) == IF a >= 0 THEN a \div b ELSE -((-a) \div b)
CMod(a, b) == a - b * CDiv(a, b)

\* ---------------------------------------------------------------- objects
UserTimers == {<<"t", 1>>, <<"t", 2>>}
Sentinel(d) == <<"g", d>>
Sentinels == {Sentinel(d) : d \in 1..MaxDepth}
Timers == UserTimers \cup Sentinels

UserFds == {"f1", "f2"}
WakerFd == "waker"
Fds == UserFds \cup {WakerFd}

SigWatchers == {"s1", "s2"}
LoopSignals == {SIGINT, SIGTERM, SIGCHLD, SIGPIPE}
\* a real-time signal, 32 above SIGUSR1
SIGRT42 == SIGUSR1 + 32
Signals == LoopSignals \cup {SIGUSR1, SIGRT42}

ProcWatchers == {"p1", "p2", "p3"}

ZeroTime == [tv_sec |-> 0, tv_usec |-> 0]

VARIABLES
    \* --- uloop.c globals
    timeouts,       \* the list `timeouts`: timer ids, head first
    tmr,            \* struct uloop_timeout of each timer: time, pending
    processes,      \* the list `processes`
    proc,           \* struct uloop_process: pid, pending
    signals,        \* the list `signals`
    usig,           \* struct uloop_signal: signo, pending, orig
    poll_fd,        \* the backend fd, -1 when closed
    waker_pipe,     \* write end of the self-pipe, -1 when closed
    uloop_cancelled,
    global_current_uloop_timeout_reached,
    uloop_handle_sigchld,
    uloop_status,
    do_sigchld,
    cur_fds,        \* the batch: sequence of [fd, events]; cur_fd and
    cur_fd,         \* cur_nfds as in the source (cur_fd counts from 0)
    cur_nfds,
    uloop_run_depth,
    fdw,            \* struct uloop_fd of each watcher (waker_fd included)
    old_sig,        \* old_sigint/old_sigterm/old_sigchld of uloop_setup_signals
    \* --- the process and the kernel
    sigact,         \* installed struct sigaction of each signal
    backend,        \* what the backend driver has registered for each fd
    pipe,           \* bytes in the self-pipe
    open_fds,       \* descriptors the process has open
    clock,          \* CLOCK_MONOTONIC, a struct timespec
    stack,          \* the C call stack, innermost frame last
    crashed,        \* undefined behaviour has been executed
    \* --- history
    ret,            \* value returned by the last outermost uloop_run_timeout
    caught,         \* SIGINT/SIGTERM delivered while a run call was active
    nsignals,       \* signals delivered so far
    nruns,          \* uloop_run_timeout calls the main program has made
    sig_before,     \* sigaction of a signal before its first watcher was added
    sig_start,      \* the sigactions before the last uloop_init call
    uloop_fd_set_cb, \* TRUE when the caller has set the observer hook
    observed,       \* calls of the observer made by the last fd_add/fd_delete
    last            \* the API call made by the last step

vars == <<timeouts, tmr, processes, proc, signals, usig, poll_fd, waker_pipe,
          uloop_cancelled, global_current_uloop_timeout_reached,
          uloop_handle_sigchld, uloop_status, do_sigchld, cur_fds, cur_fd,
          cur_nfds, uloop_run_depth, fdw, old_sig, sigact, backend, pipe,
          open_fds,
          clock, stack, crashed, ret, caught, nsignals, nruns, sig_before,
          sig_start, uloop_fd_set_cb,
          observed, last>>

\* ------------------------------------------------------------ list helpers
SetMin(S) == CHOOSE x \in S : \A y \in S : x <= y
SetMax(S) == CHOOSE x \in S : \A y \in S : x >= y
InsertAt(list, i, x) == SubSeq(list, 1, i - 1) \o <<x>> \o SubSeq(list, i, Len(list))
Remove(list, x) == SelectSeq(list, LAMBDA y : y # x)
Range(list) == {list[i] : i \in 1..Len(list)}

\* ------------------------------------------------------------- timer queue
tv_diff(t1, t2) ==
    (t1.tv_sec - t2.tv_sec) * 1000 + CDiv(t1.tv_usec - t2.tv_usec, 1000)

\* list_for_each_entry of uloop_timeout_add: the index of the first entry
\* strictly later than `time`, or one past the tail
TimeoutInsertPos(L, T, time) ==
    LET later == {i \in 1..Len(L) : tv_diff(T[L[i]].time, time) > 0}
    IN  IF later = {} THEN Len(L) + 1 ELSE SetMin(later)

uloop_timeout_add(L, T, t) ==
    IF T[t].pending
    THEN [ret |-> -1, timeouts |-> L, tmr |-> T]
    ELSE [ret |-> 0,
          timeouts |-> InsertAt(L, TimeoutInsertPos(L, T, T[t].time), t),
          tmr |-> [T EXCEPT ![t].pending = TRUE]]

uloop_timeout_cancel(L, T, t) ==
    IF ~T[t].pending
    THEN [ret |-> -1, timeouts |-> L, tmr |-> T]
    ELSE [ret |-> 0, timeouts |-> Remove(L, t),
          tmr |-> [T EXCEPT ![t].pending = FALSE]]

uloop_gettime(ts) == [tv_sec |-> ts.tv_sec, tv_usec |-> ts.tv_nsec \div 1000]

\* the same function with the milliseconds added to tv_usec unscaled
uloop_timeout_set_Unscaled(L, T, t, msecs, ts) ==
    LET c == IF T[t].pending THEN uloop_timeout_cancel(L, T, t)
             ELSE [ret |-> 0, timeouts |-> L, tmr |-> T]
        now == uloop_gettime(ts)
        sec == now.tv_sec + CDiv(msecs, 1000)
        usec == now.tv_usec + CMod(msecs, 1000)
        time == IF usec > 1000000
                THEN [tv_sec |-> sec + 1, tv_usec |-> usec - 1000000]
                ELSE [tv_sec |-> sec, tv_usec |-> usec]
    IN  uloop_timeout_add(c.timeouts, [c.tmr EXCEPT ![t].time = time], t)

uloop_timeout_set(L, T, t, msecs, ts) ==
    LET c == IF T[t].pending THEN uloop_timeout_cancel(L, T, t)
             ELSE [ret |-> 0, timeouts |-> L, tmr |-> T]
        now == uloop_gettime(ts)
        sec == now.tv_sec + CDiv(msecs, 1000)
        usec == now.tv_usec + CMod(msecs, 1000) * 1000
        time == IF usec > 1000000
                THEN [tv_sec |-> sec + 1, tv_usec |-> usec - 1000000]
                ELSE [tv_sec |-> sec, tv_usec |-> usec]
    IN  uloop_timeout_add(c.timeouts, [c.tmr EXCEPT ![t].time = time], t)

INT_MAX == 2147483647
INT_MIN == -INT_MAX - 1

\* td is an int64_t, clamped to the int that is returned
uloop_timeout_remaining(T, t, ts) ==
    LET td == tv_diff(T[t].time, uloop_gettime(ts))
    IN  IF ~T[t].pending THEN -1
        ELSE IF td > INT_MAX THEN INT_MAX
        ELSE IF td < INT_MIN THEN INT_MIN
        ELSE td

\* uloop_clear_timeouts: cancels every entry of the list
uloop_clear_timeouts(L, T) ==
    [timeouts |-> <<>>,
     tmr |-> [t \in DOMAIN T |->
                IF t \in Range(L) THEN [T[t] EXCEPT !.pending = FALSE] ELSE T[t]]]

\* ---------------------------------------------------------- process list
\* the same search stopping at the first watcher of the same pid as well
ProcessInsertPos_BeforeEqual(L, P, pid) ==
    LET later == {i \in 1..Len(L) : P[L[i]].pid >= pid}
    IN  IF later = {} THEN Len(L) + 1 ELSE SetMin(later)

ProcessInsertPos(L, P, pid) ==
    LET later == {i \in 1..Len(L) : P[L[i]].pid > pid}
    IN  IF later = {} THEN Len(L) + 1 ELSE SetMin(later)

uloop_process_add(L, P, p) ==
    IF P[p].pending
    THEN [ret |-> -1, processes |-> L, proc |-> P]
    ELSE [ret |-> 0,
          processes |-> InsertAt(L, ProcessInsertPos(L, P, P[p].pid), p),
          proc |-> [P EXCEPT ![p].pending = TRUE]]

uloop_process_delete(L, P, p) ==
    IF ~P[p].pending
    THEN [ret |-> -1, processes |-> L, proc |-> P]
    ELSE [ret |-> 0, processes |-> Remove(L, p),
          proc |-> [P EXCEPT ![p].pending = FALSE]]

uloop_clear_processes(L, P) ==
    [processes |-> <<>>,
     proc |-> [p \in DOMAIN P |->
                IF p \in Range(L) THEN [P[p] EXCEPT !.pending = FALSE] ELSE P[p]]]

\* ------------------------------------------------------- signal handlers
\* <signal.h> of the platforms uloop builds for (Linux, the BSDs): SIG_DFL
\* is the null function pointer, SIG_IGN is not
SIG_DFL == NULL
SIG_IGN == "SIG_IGN"
SigDfl == [sa_handler |-> SIG_DFL, sa_flags |-> {}]
\* no sigaction recorded
SigNone == [sa_handler |-> "none", sa_flags |-> {}]

uloop_install_handler(SA, OLD, signum, handler, add) ==
    LET s == SA[signum]
    IN  IF add
        THEN IF s.sa_handler = SIG_DFL
             THEN [sigact |-> [SA EXCEPT ![signum] =
                                 [sa_handler |-> handler, sa_flags |-> {}]],
                   old_sig |-> [OLD EXCEPT ![signum] = s]]
             ELSE [sigact |-> SA, old_sig |-> OLD]
        ELSE IF s.sa_handler = handler
             THEN [sigact |-> [SA EXCEPT ![signum] = OLD[signum]], old_sig |-> OLD]
             ELSE [sigact |-> SA, old_sig |-> OLD]

\* if (new_handler) sigaction(...): a new_handler of SIG_DFL is null, so the
\* restoring branch installs nothing
uloop_ignore_signal(SA, signum, ignore) ==
    LET s == SA[signum]
        new_handler == IF ignore
                       THEN IF s.sa_handler = SIG_DFL THEN SIG_IGN ELSE NULL
                       ELSE IF s.sa_handler = SIG_IGN THEN SIG_DFL ELSE NULL
    IN  IF new_handler # NULL
        THEN [SA EXCEPT ![signum] = [sa_handler |-> new_handler, sa_flags |-> {}]]
        ELSE SA

uloop_setup_signals(SA, OLD, add) ==
    LET a == uloop_install_handler(SA, OLD, SIGINT, "uloop_handle_sigint", add)
        b == uloop_install_handler(a.sigact, a.old_sig, SIGTERM,
                                   "uloop_handle_sigint", add)
        c == IF uloop_handle_sigchld
             THEN uloop_install_handler(b.sigact, b.old_sig, SIGCHLD,
                                        "uloop_signal_wake", add)
             ELSE b
    IN  [sigact |-> uloop_ignore_signal(c.sigact, SIGPIPE, add),
         old_sig |-> c.old_sig]

SignalInsertPos(L, U, signo) ==
    LET later == {i \in 1..Len(L) : U[L[i]].signo > signo}
    IN  IF later = {} THEN Len(L) + 1 ELSE SetMin(later)

uloop_signal_add(L, U, SA, s) ==
    IF U[s].pending
    THEN [ret |-> -1, signals |-> L, usig |-> U, sigact |-> SA]
    ELSE LET orig == SA[U[s].signo]
         IN  [ret |-> 0,
              signals |-> InsertAt(L, SignalInsertPos(L, U, U[s].signo), s),
              usig |-> [U EXCEPT ![s].pending = TRUE, ![s].orig = orig],
              sigact |-> IF orig.sa_handler # "uloop_signal_wake"
                         THEN [SA EXCEPT ![U[s].signo] =
                                 [sa_handler |-> "uloop_signal_wake",
                                  sa_flags |-> {}]]
                         ELSE SA]

\* the same function without the restoration of the saved sigaction
uloop_signal_delete_NoRestore(L, U, SA, s) ==
    IF ~U[s].pending
    THEN [ret |-> -1, signals |-> L, usig |-> U, sigact |-> SA]
    ELSE [ret |-> 0, signals |-> Remove(L, s),
          usig |-> [U EXCEPT ![s].pending = FALSE],
          sigact |-> SA]

uloop_signal_delete(L, U, SA, s) ==
    IF ~U[s].pending
    THEN [ret |-> -1, signals |-> L, usig |-> U, sigact |-> SA]
    ELSE [ret |-> 0, signals |-> Remove(L, s),
          usig |-> [U EXCEPT ![s].pending = FALSE],
          sigact |-> IF U[s].orig.sa_handler # "uloop_signal_wake"
                     THEN [SA EXCEPT ![U[s].signo] = U[s].orig]
                     ELSE SA]

\* ------------------------------------------------------ the program state
\* The state the API functions read and write, as one record: a function of
\* the API is an operator from this record to the record after the call,
\* with the value it returns in `ret` and the calls it made to the
\* uloop_fd_set_cb observer in `observed`.
Prog ==
    [timeouts |-> timeouts, tmr |-> tmr, processes |-> processes, proc |-> proc,
     signals |-> signals, usig |-> usig, poll_fd |-> poll_fd,
     waker_pipe |-> waker_pipe, cur_fds |-> cur_fds, cur_fd |-> cur_fd,
     cur_nfds |-> cur_nfds, fdw |-> fdw, old_sig |-> old_sig, sigact |-> sigact,
     backend |-> backend, pipe |-> pipe, open_fds |-> open_fds, stack |-> stack,
     clock |-> clock, uloop_handle_sigchld |-> uloop_handle_sigchld,
     uloop_fd_set_cb |-> uloop_fd_set_cb, observed |-> <<>>, ret |-> 0]

Become(S) ==
    /\ timeouts' = S.timeouts /\ tmr' = S.tmr
    /\ processes' = S.processes /\ proc' = S.proc
    /\ signals' = S.signals /\ usig' = S.usig
    /\ poll_fd' = S.poll_fd /\ waker_pipe' = S.waker_pipe
    /\ cur_fds' = S.cur_fds /\ cur_fd' = S.cur_fd /\ cur_nfds' = S.cur_nfds
    /\ fdw' = S.fdw /\ old_sig' = S.old_sig /\ sigact' = S.sigact
    /\ backend' = S.backend /\ pipe' = S.pipe /\ open_fds' = S.open_fds
    /\ stack' = S.stack /\ observed' = S.observed
    /\ UNCHANGED <<clock, uloop_handle_sigchld, uloop_fd_set_cb>>

\* --------------------------------------------------------- backend driver
\* (uloop-epoll.c / uloop-kqueue.c are included by uloop.c but are not among
\* the sources at hand; the driver is modelled from its interface)
NoReg == {"none"}
LowestFree(open) == SetMin({n \in 0..(Cardinality(open) + 1) : n \notin open})

uloop_init_pollfd(S, ok) ==
    IF S.poll_fd >= 0 THEN [S EXCEPT !.ret = 0]
    ELSE IF ~ok THEN [S EXCEPT !.ret = -1]
    ELSE [S EXCEPT !.ret = 0, !.poll_fd = LowestFree(S.open_fds),
                   !.open_fds = @ \cup {LowestFree(S.open_fds)}]

register_poll(S, w, flags) ==
    IF S.poll_fd < 0 THEN [S EXCEPT !.ret = -1]
    ELSE [S EXCEPT !.ret = 0, !.backend[w] = flags]

\* __uloop_fd_delete
backend_fd_delete(S, w) ==
    IF S.poll_fd < 0 THEN [S EXCEPT !.ret = -1]
    ELSE [S EXCEPT !.ret = 0, !.backend[w] = NoReg]

\* ------------------------------------------------------------ fd watchers
IsFdFrame(f) == f.kind = "fdcb"

\* fd_stack is walked from the innermost frame outwards
uloop_fd_stack_event(S, fd, events) ==
    IF ULOOP_EDGE_TRIGGER \notin S.fdw[fd].flags
    THEN [S EXCEPT !.ret = FALSE]
    ELSE LET st == S.stack
             hits == {i \in 1..Len(st) : IsFdFrame(st[i]) /\ st[i].fd = fd}
         IN  IF hits = {}
             THEN [S EXCEPT !.ret = FALSE]
             ELSE [S EXCEPT !.ret = TRUE,
                            !.stack[SetMax(hits)] =
                               IF SignBit \in events
                               THEN [@ EXCEPT !.fd = NULL]
                               ELSE [@ EXCEPT !.events =
                                       @ \cup events \cup {ULOOP_EVENT_BUFFERED}]]

\* the pending tail of the batch with the entries of w nulled
BatchWithout(S, w) ==
    [i \in 1..Len(S.cur_fds) |->
        IF i > S.cur_fd /\ i <= S.cur_fd + S.cur_nfds /\ S.cur_fds[i].fd = w
        THEN [S.cur_fds[i] EXCEPT !.fd = NULL]
        ELSE S.cur_fds[i]]

uloop_fd_delete(S, w) ==
    LET S1 == [S EXCEPT !.cur_fds = BatchWithout(S, w)]
    IN  IF ~S1.fdw[w].registered
        THEN [S1 EXCEPT !.ret = 0]
        ELSE LET S2 == [S1 EXCEPT
                          !.observed = IF S1.uloop_fd_set_cb
                                       THEN Append(@, <<w, {}>>) ELSE @,
                          !.fdw[w].registered = FALSE]
                 S3 == uloop_fd_stack_event(S2, w, MinusOne)
                 S4 == backend_fd_delete(S3, w)
             IN  [S4 EXCEPT !.fdw[w].flags = {}]

\* the same function without the delegation to uloop_fd_delete
uloop_fd_add_NoDelegate(S, w, flags) ==
    LET S1 == IF ~S.fdw[w].registered /\ ULOOP_BLOCKING \notin flags
              THEN [S EXCEPT !.fdw[w].nonblock = TRUE] ELSE S
        S2 == register_poll(S1, w, flags)
    IN  IF S2.ret < 0 THEN S2
        ELSE [S2 EXCEPT
                !.observed = IF S2.uloop_fd_set_cb
                             THEN Append(@, <<w, flags>>) ELSE @,
                !.fdw[w].flags = flags, !.fdw[w].registered = TRUE,
                !.fdw[w].eof = FALSE, !.fdw[w].error = FALSE]

uloop_fd_add(S, w, flags) ==
    IF flags \cap {ULOOP_READ, ULOOP_WRITE} = {}
    THEN uloop_fd_delete(S, w)
    ELSE LET S1 == IF ~S.fdw[w].registered /\ ULOOP_BLOCKING \notin flags
                   THEN [S EXCEPT !.fdw[w].nonblock = TRUE] ELSE S
             S2 == register_poll(S1, w, flags)
         IN  IF S2.ret < 0 THEN S2
             ELSE [S2 EXCEPT
                     !.observed = IF S2.uloop_fd_set_cb
                                  THEN Append(@, <<w, flags>>) ELSE @,
                     !.fdw[w].flags = flags, !.fdw[w].registered = TRUE,
                     !.fdw[w].eof = FALSE, !.fdw[w].error = FALSE]

\* ------------------------------------------------------------ init and done
uloop_done(S) ==
    LET sg == uloop_setup_signals(S.sigact, S.old_sig, FALSE)
        S1 == [S EXCEPT !.sigact = sg.sigact, !.old_sig = sg.old_sig]
        S2 == IF S1.poll_fd >= 0
              THEN [S1 EXCEPT !.open_fds = @ \ {S1.poll_fd}, !.poll_fd = -1,
                              !.backend = [w \in Fds |-> NoReg]]
              ELSE S1
        S3 == IF S2.waker_pipe >= 0
              THEN [uloop_fd_delete(S2, WakerFd) EXCEPT
                       !.open_fds = @ \ {S2.waker_pipe, S2.fdw[WakerFd].fd},
                       !.pipe = <<>>, !.waker_pipe = -1]
              ELSE S2
        ct == uloop_clear_timeouts(S3.timeouts, S3.tmr)
        cp == uloop_clear_processes(S3.processes, S3.proc)
    IN  [S3 EXCEPT !.timeouts = ct.timeouts, !.tmr = ct.tmr,
                   !.processes = cp.processes, !.proc = cp.proc, !.ret = 0]

\* pipe(fds), both ends non-blocking and close-on-exec, read end registered
waker_init(S, ok) ==
    IF S.waker_pipe >= 0 THEN [S EXCEPT !.ret = 0]
    ELSE IF ~ok THEN [S EXCEPT !.ret = -1]
    ELSE LET rd == LowestFree(S.open_fds)
             wr == LowestFree(S.open_fds \cup {rd})
             S1 == [S EXCEPT !.open_fds = @ \cup {rd, wr}, !.waker_pipe = wr,
                             !.fdw[WakerFd].fd = rd,
                             !.fdw[WakerFd].nonblock = TRUE]
         IN  [uloop_fd_add(S1, WakerFd, {ULOOP_READ}) EXCEPT !.ret = 0]

\* pollOk, pipeOk: whether the kernel grants the backend fd and the pipe
uloop_init(S, pollOk, pipeOk) ==
    LET S1 == uloop_init_pollfd(S, pollOk)
        S2 == waker_init(S1, pipeOk)
        sg == uloop_setup_signals(S2.sigact, S2.old_sig, TRUE)
    IN  IF S1.ret < 0 THEN [S1 EXCEPT !.ret = -1]
        ELSE IF S2.ret < 0 THEN [uloop_done(S2) EXCEPT !.ret = -1]
        ELSE [S2 EXCEPT !.sigact = sg.sigact, !.old_sig = sg.old_sig, !.ret = 0]

\* -------------------------------------------------------------- the stack
Top == stack[Len(stack)]
Pop(st) == SubSeq(st, 1, Len(st) - 1)
SetTop(st, f) == [st EXCEPT ![Len(st)] = f]
IsRunFrame(f) == f.kind = "run"
IsCbFrame(f) == f.kind \in {"tcb", "fdcb", "pcb", "scb"}
\* a frame running user code (signal_consume is the loop's own callback)
IsUserCb(f) == f.kind \in {"tcb", "pcb", "scb"} \/ (f.kind = "fdcb" /\ f.cb # WakerFd)
TopIsRun(pc) == ~crashed /\ stack # <<>> /\ IsRunFrame(Top) /\ Top.pc = pc
TopIsCb == ~crashed /\ stack # <<>> /\ IsCbFrame(Top)
RunFrames(st) == {i \in 1..Len(st) : IsRunFrame(st[i])}
\* the stack position of the d-th active uloop_run_timeout call
RunFrameIndex(st, d) ==
    CHOOSE i \in RunFrames(st) : Cardinality({j \in RunFrames(st) : j <= i}) = d

RunFrame(ms) ==
    [kind |-> "run", pc |-> "start", timeout |-> ms, tv |-> ZeroTime,
     next_time |-> 0, fired |-> FALSE, entered_cancelled |-> uloop_cancelled,
     pid |-> 0, status |-> 0, p |-> "head", tmp |-> "head"]
TimeoutCbFrame(t) == [kind |-> "tcb", cb |-> t, ops |-> 0]
ProcessCbFrame(p, status) == [kind |-> "pcb", cb |-> p, ret |-> status, ops |-> 0]
\* pc, signums and the cursors p and tmp are the locals of signal_consume;
\* shift is what the build makes of its undefined shift; bytes and called
\* record what one run of it has read and whom it has called
FdCbFrame(w, ev) ==
    [kind |-> "fdcb", fd |-> w, events |-> {}, cb |-> w, arg |-> ev, ops |-> 0,
     pc |-> "read", signums |-> {}, p |-> "head", tmp |-> "head",
     shift |-> "masked", bytes |-> {}, called |-> <<>>]
SignalCbFrame(s) == [kind |-> "scb", cb |-> s, ops |-> 0]

\* a caller of the API: the main program between runs ("main"), or user code
\* inside a callback ("cb"), which may make MaxCbOps calls per invocation
CanCall(ctx) ==
    /\ ~crashed
    /\ IF ctx = "main" THEN stack = <<>>
       ELSE stack # <<>> /\ IsUserCb(Top) /\ Top.ops < MaxCbOps
Charge(st) == IF st = <<>> THEN st ELSE [st EXCEPT ![Len(st)].ops = @ + 1]

\* a sentinel whose uloop_run_timeout call has returned but which is still
\* linked in the timeout list: a pointer into a dead stack frame
SentinelLive(g) ==
    /\ g[2] <= uloop_run_depth
    /\ stack[RunFrameIndex(stack, g[2])].timeout >= 0
Dangling == {g \in Range(timeouts) : g \in Sentinels /\ ~SentinelLive(g)}

\* ---------------------------------------------------------------- the clock
ClockMs(ts) == ts.tv_sec * 1000 + ts.tv_nsec \div 1000000
ClockAfter(ts, ms) ==
    LET nsec == ts.tv_nsec + (ms % 1000) * 1000000
    IN  [tv_sec |-> ts.tv_sec + ms \div 1000 + nsec \div 1000000000,
         tv_nsec |-> nsec % 1000000000]

\* ------------------------------------------------------------------ groups
listVars == <<processes, proc, signals, usig>>
timerVars == <<timeouts, tmr>>
sigVars == <<old_sig, sigact>>
handleVars == <<poll_fd, waker_pipe, open_fds>>
batchVars == <<cur_fds, cur_fd, cur_nfds>>
fdVars == <<fdw, backend, observed>>
configVars == <<uloop_handle_sigchld, uloop_fd_set_cb>>
flagVars == <<uloop_cancelled, global_current_uloop_timeout_reached,
              uloop_status, do_sigchld>>
sigHist == <<sig_before, sig_start>>
historyVars == <<ret, caught, nsignals, nruns, sigHist, last>>

\* ------------------------------------------------------ uloop_run_timeout
\* the call itself: a new frame, not yet past its first statement
CallRunTimeout(ctx, ms) ==
    /\ CanCall(ctx)
    /\ Cardinality(RunFrames(stack)) < MaxDepth
    /\ ctx = "main" => nruns < MaxRuns
    /\ nruns' = IF ctx = "main" THEN nruns + 1 ELSE nruns
    /\ stack' = Append(Charge(stack), RunFrame(ms))
    /\ ret' = IF stack = <<>> THEN -1 ELSE ret
    /\ caught' = IF stack = <<>> THEN <<>> ELSE caught
    /\ UNCHANGED <<listVars, timerVars, sigVars, handleVars, batchVars, fdVars,
                   configVars, flagVars, uloop_run_depth, pipe, clock, crashed,
                   nsignals, sigHist, last>>

\* uloop_run_depth++; the sentinel is set when timeout >= 0.  The sentinel
\* is an automatic variable: what uloop_timeout_set reads in its `pending`
\* is whatever the stack holds (see UndefinedBehaviour for the other outcome)
RunStart ==
    /\ TopIsRun("start")
    /\ LET d == uloop_run_depth + 1
           r == uloop_timeout_set(timeouts, tmr, Sentinel(d), Top.timeout, clock)
       IN  /\ uloop_run_depth' = d
           /\ IF Top.timeout >= 0
              THEN timeouts' = r.timeouts /\ tmr' = r.tmr
              ELSE UNCHANGED timerVars
    /\ stack' = SetTop(stack, [Top EXCEPT !.pc = "reset"])
    /\ UNCHANGED <<listVars, sigVars, handleVars, batchVars, fdVars, configVars,
                   flagVars, pipe, clock, crashed, historyVars>>

\* uloop_status = 0; global_current_uloop_timeout_reached = false
RunReset ==
    /\ TopIsRun("reset")
    /\ uloop_status' = 0
    /\ global_current_uloop_timeout_reached' = FALSE
    /\ stack' = SetTop(stack, [Top EXCEPT !.pc = "top"])
    /\ UNCHANGED <<listVars, timerVars, sigVars, handleVars, batchVars, fdVars,
                   configVars, uloop_cancelled, do_sigchld, uloop_run_depth,
                   pipe, clock, crashed, historyVars>>

\* head of the do-while: if (do_sigchld) uloop_handle_processes();
RunTop ==
    /\ TopIsRun("top")
    /\ IF do_sigchld
       THEN /\ do_sigchld' = FALSE
            /\ stack' = SetTop(stack, [Top EXCEPT !.pc = "reap"])
       ELSE /\ UNCHANGED do_sigchld
            /\ stack' = SetTop(stack, [Top EXCEPT !.pc = "chk1"])
    /\ UNCHANGED <<listVars, timerVars, sigVars, handleVars, batchVars, fdVars,
                   configVars, uloop_cancelled,
                   global_current_uloop_timeout_reached, uloop_status,
                   uloop_run_depth, pipe, clock, crashed, historyVars>>

\* ------------------------------------------------- uloop_handle_processes
\* what waitpid(-1, &ret, WNOHANG) can return: -1 (no children), 0 (none has
\* exited) or the pid of an exited child, with its status
ChildPids == {1, 2}
WaitResults == {-1, 0} \cup ChildPids
WaitStatus == {0, 1}

\* list_for_each_entry_safe keeps the current entry and the one after it.
\* The entry after the list head is the first one; an entry that has been
\* unlinked has no valid next pointer ("wild").
NextEntry(L, x) ==
    LET at == {i \in 1..Len(L) : L[i] = x}
    IN  IF x = "head" THEN (IF L = <<>> THEN "head" ELSE L[1])
        ELSE IF x = "wild" \/ at = {} THEN "wild"
        ELSE IF SetMin(at) = Len(L) THEN "head"
        ELSE L[SetMin(at) + 1]

\* pid = waitpid(...); if (pid <= 0) return; else start the list walk
ReapWait ==
    /\ TopIsRun("reap")
    /\ \E pid \in WaitResults, status \in WaitStatus :
          stack' = SetTop(stack,
             IF pid <= 0 THEN [Top EXCEPT !.pc = "chk1"]
             ELSE [Top EXCEPT !.pc = "reaplist", !.pid = pid, !.status = status,
                              !.p = NextEntry(processes, "head"),
                              !.tmp = NextEntry(processes, NextEntry(processes, "head"))])
    /\ UNCHANGED <<listVars, timerVars, sigVars, handleVars, batchVars, fdVars,
                   configVars, flagVars, uloop_run_depth, pipe, clock, crashed,
                   historyVars>>

\* the for-step of the list walk: p = tmp, tmp = the entry after tmp
ReapAdvance(f) == [f EXCEPT !.pc = "reaplist", !.p = f.tmp,
                            !.tmp = NextEntry(processes, f.tmp)]

\* the same body without the test that skips the watchers of smaller pids
ReapVisit_NoSkip ==
    /\ TopIsRun("reaplist")
    /\ IF Top.p = "head"
       THEN /\ stack' = SetTop(stack, [Top EXCEPT !.pc = "reap"])
            /\ UNCHANGED <<processes, proc, crashed>>
       ELSE IF Top.p = "wild"
       THEN /\ crashed' = TRUE
            /\ UNCHANGED <<processes, proc, stack>>
       ELSE IF proc[Top.p].pid > Top.pid
       THEN /\ stack' = SetTop(stack, [Top EXCEPT !.pc = "reap"])
            /\ UNCHANGED <<processes, proc, crashed>>
       ELSE \E r \in {uloop_process_delete(processes, proc, Top.p)} :
               /\ processes' = r.processes
               /\ proc' = r.proc
               /\ stack' = Append(SetTop(stack, [Top EXCEPT !.pc = "reapcb"]),
                                  ProcessCbFrame(Top.p, Top.status))
               /\ UNCHANGED crashed
    /\ UNCHANGED <<signals, usig, timerVars, sigVars, handleVars, batchVars, fdVars,
                   configVars, flagVars, uloop_run_depth, pipe, clock, historyVars>>

\* one pass of the body of list_for_each_entry_safe: the walk ends at the
\* list head, skips a watcher of a smaller pid, stops at one of a larger
\* pid, and unlinks and calls a watcher of the reaped pid.  A walk that has
\* followed the next pointer of an unlinked entry dereferences a wild pointer.
ReapVisit ==
    /\ TopIsRun("reaplist")
    /\ IF Top.p = "head"
       THEN /\ stack' = SetTop(stack, [Top EXCEPT !.pc = "reap"])
            /\ UNCHANGED <<processes, proc, crashed>>
       ELSE IF Top.p = "wild"
       THEN /\ crashed' = TRUE
            /\ UNCHANGED <<processes, proc, stack>>
       ELSE IF proc[Top.p].pid < Top.pid
       THEN /\ stack' = SetTop(stack, ReapAdvance(Top))
            /\ UNCHANGED <<processes, proc, crashed>>
       ELSE IF proc[Top.p].pid > Top.pid
       THEN /\ stack' = SetTop(stack, [Top EXCEPT !.pc = "reap"])
            /\ UNCHANGED <<processes, proc, crashed>>
       ELSE \E r \in {uloop_process_delete(processes, proc, Top.p)} :
               /\ processes' = r.processes
               /\ proc' = r.proc
               /\ stack' = Append(SetTop(stack, [Top EXCEPT !.pc = "reapcb"]),
                                  ProcessCbFrame(Top.p, Top.status))
               /\ UNCHANGED crashed
    /\ UNCHANGED <<signals, usig, timerVars, sigVars, handleVars, batchVars, fdVars,
                   configVars, flagVars, uloop_run_depth, pipe, clock, historyVars>>

\* p->cb(p, ret) has returned: the for-step
ReapNext ==
    /\ TopIsRun("reapcb")
    /\ stack' = SetTop(stack, ReapAdvance(Top))
    /\ UNCHANGED <<listVars, timerVars, sigVars, handleVars, batchVars, fdVars,
                   configVars, flagVars, uloop_run_depth, pipe, clock, crashed,
                   historyVars>>

\* if (uloop_cancelled) break; uloop_gettime(&tv);
RunCheckCancelled ==
    /\ TopIsRun("chk1")
    /\ stack' = SetTop(stack,
          IF uloop_cancelled THEN [Top EXCEPT !.pc = "exit"]
          ELSE [Top EXCEPT !.pc = "ptimeouts", !.tv = uloop_gettime(clock)])
    /\ UNCHANGED <<listVars, timerVars, sigVars, handleVars, batchVars, fdVars,
                   configVars, flagVars, uloop_run_depth, pipe, clock, crashed,
                   historyVars>>

\* one pass of the while loop of uloop_process_timeouts
RunProcessTimeouts ==
    /\ TopIsRun("ptimeouts")
    /\ IF timeouts = <<>>
       THEN /\ stack' = SetTop(stack, [Top EXCEPT !.pc = "chk2", !.next_time = -1])
            /\ UNCHANGED <<timerVars, global_current_uloop_timeout_reached>>
       ELSE LET t == Head(timeouts)
                res == tv_diff(tmr[t].time, Top.tv)
                c == uloop_timeout_cancel(timeouts, tmr, t)
            IN  IF res > 0
                THEN /\ stack' = SetTop(stack,
                            [Top EXCEPT !.pc = "chk2", !.next_time = res])
                     /\ UNCHANGED <<timerVars, global_current_uloop_timeout_reached>>
                ELSE /\ timeouts' = c.timeouts
                     /\ tmr' = c.tmr
                     /\ IF t \in Sentinels
                        THEN \* handle_global_timeout
                             /\ global_current_uloop_timeout_reached' = TRUE
                             /\ stack' = IF SentinelLive(t)
                                         THEN [stack EXCEPT
                                                ![RunFrameIndex(stack, t[2])].fired = TRUE]
                                         ELSE stack
                        ELSE /\ UNCHANGED global_current_uloop_timeout_reached
                             /\ stack' = Append(stack, TimeoutCbFrame(t))
    /\ last' = IF timeouts # <<>> /\ Head(timeouts) \in UserTimers
                   /\ tv_diff(tmr[Head(timeouts)].time, Top.tv) <= 0
                THEN [op |-> "timeout_cb", t |-> Head(timeouts),
                      time |-> tmr[Head(timeouts)].time, tv |-> Top.tv]
                ELSE last
    /\ UNCHANGED <<listVars, sigVars, handleVars, batchVars, fdVars, configVars,
                   uloop_cancelled, uloop_status, do_sigchld, uloop_run_depth,
                   pipe, clock, crashed, ret, caught, nsignals, nruns, sigHist>>

\* the same step without the cancellation check after timer firing
RunCheckCancelled2_NoBreak ==
    /\ TopIsRun("chk2")
    /\ stack' = SetTop(stack,
          IF Top.next_time >= 0 THEN [Top EXCEPT !.pc = "events"]
          ELSE [Top EXCEPT !.pc = "while"])
    /\ UNCHANGED <<listVars, timerVars, sigVars, handleVars, batchVars, fdVars,
                   configVars, flagVars, uloop_run_depth, pipe, clock, crashed,
                   historyVars>>

\* if (uloop_cancelled) break; if (next_time >= 0) uloop_run_events(next_time);
RunCheckCancelled2 ==
    /\ TopIsRun("chk2")
    /\ stack' = SetTop(stack,
          IF uloop_cancelled THEN [Top EXCEPT !.pc = "exit"]
          ELSE IF Top.next_time >= 0 THEN [Top EXCEPT !.pc = "events"]
          ELSE [Top EXCEPT !.pc = "while"])
    /\ UNCHANGED <<listVars, timerVars, sigVars, handleVars, batchVars, fdVars,
                   configVars, flagVars, uloop_run_depth, pipe, clock, crashed,
                   historyVars>>

\* while ((!uloop_cancelled) && (!global_current_uloop_timeout_reached))
RunWhile ==
    /\ TopIsRun("while")
    /\ stack' = SetTop(stack,
          IF ~uloop_cancelled /\ ~global_current_uloop_timeout_reached
          THEN [Top EXCEPT !.pc = "top"]
          ELSE [Top EXCEPT !.pc = "exit"])
    /\ UNCHANGED <<listVars, timerVars, sigVars, handleVars, batchVars, fdVars,
                   configVars, flagVars, uloop_run_depth, pipe, clock, crashed,
                   historyVars>>

\* global_current_uloop_timeout_reached = false; --uloop_run_depth;
\* return uloop_status;
RunExit ==
    /\ TopIsRun("exit")
    /\ global_current_uloop_timeout_reached' = FALSE
    /\ uloop_run_depth' = uloop_run_depth - 1
    /\ stack' = Pop(stack)
    /\ ret' = IF Len(stack) = 1 THEN uloop_status ELSE ret
    /\ UNCHANGED <<listVars, timerVars, sigVars, handleVars, batchVars, fdVars,
                   configVars, uloop_cancelled, uloop_status, do_sigchld, pipe,
                   clock, crashed, caught, nsignals, nruns, sigHist, last>>

\* --------------------------------------------------------- uloop_run_events
\* uloop_fetch_events of the backend: it blocks for at most `timeout` ms and
\* fills the batch with ready watchers the backend has registered.  The
\* self-pipe's read end is ready whenever the pipe holds a byte.
ULOOP_MAX_EVENTS == 10
Registered == {w \in Fds : backend[w] # NoReg}
MustReport == {w \in Registered : w = WakerFd /\ pipe # <<>>}
MayReport == {w \in Registered : w # WakerFd \/ pipe # <<>>}
Orderings(S) ==
    {q \in UNION {[1..n -> S] : n \in 0..Cardinality(S)} :
        /\ Len(q) <= ULOOP_MAX_EVENTS
        /\ \A i, j \in 1..Len(q) : i # j => q[i] # q[j]}
Batches ==
    {[i \in 1..Len(q) |-> [fd |-> q[i], events |-> backend[q[i]] \cap ULOOP_EVENT_MASK]] :
        q \in {o \in Orderings(MayReport) : MustReport \subseteq Range(o)}}
Ticks(ts) == ClockMs(ts) \div TickMs
\* ticks the fetch may take: up to the timeout when something is ready, the
\* timeout (or one tick more, the scheduler's slack) when nothing is
Elapsed(batch, timeout) ==
    {d \in 0..(MaxTicks - Ticks(clock)) :
        IF batch = <<>>
        THEN d * TickMs >= timeout /\ (d - 1) * TickMs <= timeout
        ELSE d * TickMs <= timeout}

\* if (!cur_nfds) { cur_fd = 0; cur_nfds = uloop_fetch_events(timeout); }
RunEventsFetch ==
    /\ TopIsRun("events")
    /\ cur_nfds = 0
    /\ \E batch \in Batches : \E d \in Elapsed(batch, Top.next_time) :
          /\ cur_fds' = batch
          /\ cur_fd' = 0
          /\ cur_nfds' = Len(batch)
          /\ clock' = ClockAfter(clock, d * TickMs)
    /\ stack' = SetTop(stack, [Top EXCEPT !.pc = "evloop"])
    /\ UNCHANGED <<listVars, timerVars, sigVars, handleVars, fdVars, configVars,
                   flagVars, uloop_run_depth, pipe, crashed, historyVars>>

\* entries of the last batch are still pending: no fetch
RunEventsResume ==
    /\ TopIsRun("events")
    /\ cur_nfds # 0
    /\ stack' = SetTop(stack, [Top EXCEPT !.pc = "evloop"])
    /\ UNCHANGED <<listVars, timerVars, sigVars, handleVars, batchVars, fdVars,
                   configVars, flagVars, uloop_run_depth, pipe, clock, crashed,
                   historyVars>>

\* one pass of while (cur_nfds > 0): skip a nulled entry, fold an event of a
\* watcher whose callback is on the stack, or call the callback
RunEventsLoop ==
    /\ TopIsRun("evloop")
    /\ IF cur_nfds <= 0
       THEN /\ stack' = SetTop(stack, [Top EXCEPT !.pc = "while"])
            /\ UNCHANGED batchVars
       ELSE LET cur == cur_fds[cur_fd + 1]
                se == uloop_fd_stack_event(Prog, cur.fd, cur.events)
            IN  /\ cur_fd' = cur_fd + 1
                /\ cur_nfds' = cur_nfds - 1
                /\ UNCHANGED cur_fds
                /\ IF cur.fd = NULL THEN UNCHANGED stack
                   ELSE IF se.ret THEN stack' = se.stack
                   ELSE stack' = Append(SetTop(stack, [Top EXCEPT !.pc = "evcb"]),
                                        FdCbFrame(cur.fd, cur.events))
    /\ UNCHANGED <<listVars, timerVars, sigVars, handleVars, fdVars, configVars,
                   flagVars, uloop_run_depth, pipe, clock, crashed, historyVars>>

\* ---------------------------------------------------------------- callbacks
\* the return of a callback.  For an fd callback this is the tail of the
\* do-while of uloop_run_events: while (stack_cur.fd && events) calls it
\* again with the folded events, else fd_stack is popped and
\* uloop_run_events returns.
AfterCallback(st) ==
    LET f == st[Len(st)]
        events == f.events \cap ULOOP_EVENT_MASK
    IN  IF f.kind \in {"tcb", "pcb", "scb"} THEN Pop(st)
        ELSE IF f.fd # NULL /\ events # {}
        THEN SetTop(st, [FdCbFrame(f.cb, events) EXCEPT !.fd = f.fd])
        ELSE [Pop(st) EXCEPT ![Len(st) - 1].pc = "while"]

CallbackReturn ==
    /\ TopIsCb
    /\ IsUserCb(Top)
    /\ stack' = AfterCallback(stack)
    /\ UNCHANGED <<listVars, timerVars, sigVars, handleVars, batchVars, fdVars,
                   configVars, flagVars, uloop_run_depth, pipe, clock, crashed,
                   historyVars>>

\* uloop_end(): uloop_cancelled = true
CallbackEnd ==
    /\ CanCall("cb")
    /\ uloop_cancelled' = TRUE
    /\ stack' = Charge(stack)
    /\ UNCHANGED <<listVars, timerVars, sigVars, handleVars, batchVars, fdVars,
                   configVars, global_current_uloop_timeout_reached,
                   uloop_status, do_sigchld, uloop_run_depth, pipe, clock,
                   crashed, historyVars>>

\* ----------------------------------------------------------- signal_consume
\* 1u << (signo - 1): an unsigned int shifted by 32 or more is undefined; the
\* builds at hand either take the shift count modulo 32 or produce 0.
\* A uint64_t is the set of the positions of its one bits.
ShiftOutcomes == {"masked", "zero"}
UIntBits == 32
Shl1u(k, outcome) ==
    IF k < UIntBits THEN {k}
    ELSE IF outcome = "masked" THEN {k % UIntBits}
    ELSE {}

set_signo(signums, signo, outcome) ==
    IF signo >= 1 /\ signo <= 64 THEN signums \cup Shl1u(signo - 1, outcome)
    ELSE signums

get_signo(signums, signo, outcome) ==
    signo >= 1 /\ signo <= 64 /\ signums \cap Shl1u(signo - 1, outcome) # {}

RECURSIVE ReadSignums(_, _, _)
ReadSignums(signums, buf, outcome) ==
    IF buf = <<>> THEN signums
    ELSE ReadSignums(set_signo(signums, Head(buf), outcome), Tail(buf), outcome)

TopIsConsume(pc) == TopIsCb /\ ~IsUserCb(Top) /\ Top.pc = pc

\* signal_consume, the callback of waker_fd: read the pipe until it is empty,
\* setting the bit of every byte read, then start the walk of `signals`
SignalConsume ==
    /\ TopIsConsume("read")
    /\ pipe' = <<>>
    /\ \E outcome \in ShiftOutcomes :
          stack' = SetTop(stack,
             [Top EXCEPT !.pc = "walk",
                         !.shift = outcome,
                         !.signums = ReadSignums({}, pipe, outcome),
                         !.bytes = Range(pipe),
                         !.p = NextEntry(signals, "head"),
                         !.tmp = NextEntry(signals, NextEntry(signals, "head"))])
    /\ UNCHANGED <<listVars, timerVars, sigVars, handleVars, batchVars, fdVars,
                   configVars, flagVars, uloop_run_depth, clock, crashed,
                   historyVars>>

SignalAdvance(f) == [f EXCEPT !.pc = "walk", !.p = f.tmp,
                              !.tmp = NextEntry(signals, f.tmp)]

\* one pass of list_for_each_entry_safe(usig, usig_next, &signals, list):
\* the walk ends at the list head; if (get_signo(signums, usig->signo))
\* usig->cb(usig)
SignalVisit ==
    /\ TopIsConsume("walk")
    /\ IF Top.p = "head"
       THEN stack' = AfterCallback(stack) /\ UNCHANGED crashed
       ELSE IF Top.p = "wild"
       THEN crashed' = TRUE /\ UNCHANGED stack
       ELSE /\ UNCHANGED crashed
            /\ \E outcome \in {Top.shift} :
                  IF get_signo(Top.signums, usig[Top.p].signo, outcome)
                  THEN stack' = Append(SetTop(stack,
                                         [Top EXCEPT !.pc = "walkcb",
                                                     !.called = Append(@, Top.p)]),
                                      SignalCbFrame(Top.p))
                  ELSE stack' = SetTop(stack, SignalAdvance(Top))
    /\ UNCHANGED <<listVars, timerVars, sigVars, handleVars, batchVars, fdVars,
                   configVars, flagVars, uloop_run_depth, pipe, clock, historyVars>>

\* usig->cb(usig) has returned: the for-step
SignalNext ==
    /\ TopIsConsume("walkcb")
    /\ stack' = SetTop(stack, SignalAdvance(Top))
    /\ UNCHANGED <<listVars, timerVars, sigVars, handleVars, batchVars, fdVars,
                   configVars, flagVars, uloop_run_depth, pipe, clock, crashed,
                   historyVars>>

\* the steps of signal_consume
ConsumeStep ==
    \/ SignalConsume
    \/ SignalVisit
    \/ SignalNext

\* ------------------------------------------------------------------ signals
\* uloop_signal_wake: write the signal number to the pipe
uloop_signal_wake(signo) ==
    IF waker_pipe >= 0 THEN Append(pipe, signo % 256) ELSE pipe

\* uloop_handle_sigint, run by the kernel between any two steps of the
\* program while it is the installed handler of SIGINT or SIGTERM
DeliverSigint(signo) ==
    /\ ~crashed
    /\ nsignals < MaxSignals
    /\ sigact[signo].sa_handler = "uloop_handle_sigint"
    /\ uloop_status' = signo
    /\ uloop_cancelled' = TRUE
    /\ pipe' = uloop_signal_wake(signo)
    /\ nsignals' = nsignals + 1
    /\ caught' = IF stack # <<>> THEN Append(caught, signo) ELSE caught
    /\ UNCHANGED <<listVars, timerVars, sigVars, handleVars, batchVars, fdVars,
                   configVars, global_current_uloop_timeout_reached, do_sigchld,
                   uloop_run_depth, clock, stack, crashed, ret, nruns, sigHist,
                   last>>

\* uloop_signal_wake as the handler of SIGCHLD, run by the kernel between any
\* two steps of the program: do_sigchld = true and a byte to the pipe
DeliverSigchld ==
    /\ ~crashed
    /\ nsignals < MaxSignals
    /\ sigact[SIGCHLD].sa_handler = "uloop_signal_wake"
    /\ do_sigchld' = TRUE
    /\ pipe' = uloop_signal_wake(SIGCHLD)
    /\ nsignals' = nsignals + 1
    /\ UNCHANGED <<listVars, timerVars, sigVars, handleVars, batchVars, fdVars,
                   configVars, uloop_cancelled, uloop_status,
                   global_current_uloop_timeout_reached, uloop_run_depth, clock,
                   stack, crashed, ret, caught, nruns, sigHist, last>>

\* uloop_signal_wake as the handler a signal watcher has installed
DeliverWake(signo) ==
    /\ ~crashed
    /\ Len(pipe) < MaxWakes
    /\ sigact[signo].sa_handler = "uloop_signal_wake"
    /\ do_sigchld' = (do_sigchld \/ signo = SIGCHLD)
    /\ pipe' = uloop_signal_wake(signo)
    /\ UNCHANGED <<listVars, timerVars, sigVars, handleVars, batchVars, fdVars,
                   configVars, uloop_cancelled, uloop_status,
                   global_current_uloop_timeout_reached, uloop_run_depth, clock,
                   stack, crashed, historyVars>>

\* ------------------------------------------------------ undefined behaviour
\* list_del() through an indeterminate or dead pointer.  Two places reach it:
\*  - uloop_run_timeout hands the uninitialised uloop_global_timer to
\*    uloop_timeout_set, which cancels it when its `pending` reads nonzero;
\*  - uloop_process_timeouts reads and unlinks the head of the list when it
\*    is the sentinel of a call that has returned.
\* The process is then in no state the program defines; the model stops it.
UndefinedBehaviour ==
    /\ ~crashed
    /\ stack # <<>>
    /\ \/ TopIsRun("start") /\ Top.timeout >= 0
       \/ TopIsRun("ptimeouts") /\ timeouts # <<>> /\ Head(timeouts) \in Dangling
    /\ crashed' = TRUE
    /\ UNCHANGED <<listVars, timerVars, sigVars, handleVars, batchVars, fdVars,
                   configVars, flagVars, uloop_run_depth, pipe, clock, stack,
                   historyVars>>

\* ------------------------------------------------------------ the API calls
\* what the run loop owns and an API call leaves alone
loopVars == <<flagVars, uloop_run_depth, crashed, ret, caught, nsignals, nruns>>

Charged(S) == [S EXCEPT !.stack = Charge(@)]

UloopInit(pollOk, pipeOk) ==
    /\ CanCall("main")
    /\ \E S \in {uloop_init(Prog, pollOk, pipeOk)} :
          Become(S) /\ last' = [op |-> "uloop_init", ret |-> S.ret]
    /\ sig_start' = sigact
    /\ UNCHANGED <<loopVars, sig_before>>

UloopDone ==
    /\ CanCall("main")
    /\ \E S \in {uloop_done(Prog)} :
          Become(S) /\ last' = [op |-> "uloop_done", ret |-> S.ret]
    /\ UNCHANGED <<loopVars, sigHist>>

FdAdd(ctx, w, flags) ==
    /\ CanCall(ctx)
    /\ \E S \in {uloop_fd_add(Charged(Prog), w, flags)} :
          Become(S) /\ last' = [op |-> "uloop_fd_add", w |-> w, flags |-> flags,
                                ret |-> S.ret]
    /\ UNCHANGED <<loopVars, sigHist>>

FdDelete(ctx, w) ==
    /\ CanCall(ctx)
    /\ \E S \in {uloop_fd_delete(Charged(Prog), w)} :
          Become(S) /\ last' = [op |-> "uloop_fd_delete", w |-> w, ret |-> S.ret]
    /\ UNCHANGED <<loopVars, sigHist>>

TimeoutSet(ctx, t, msecs) ==
    /\ CanCall(ctx)
    /\ \E r \in {uloop_timeout_set(timeouts, tmr, t, msecs, clock)} :
           /\ timeouts' = r.timeouts
           /\ tmr' = r.tmr
           /\ last' = [op |-> "uloop_timeout_set", t |-> t, msecs |-> msecs,
                        ret |-> r.ret]
    /\ stack' = Charge(stack)
    /\ UNCHANGED <<listVars, sigVars, handleVars, batchVars, fdVars, configVars,
                   pipe, clock, loopVars, sigHist>>

TimeoutCancel(ctx, t) ==
    /\ CanCall(ctx)
    /\ \E r \in {uloop_timeout_cancel(timeouts, tmr, t)} :
           /\ timeouts' = r.timeouts
           /\ tmr' = r.tmr
           /\ last' = [op |-> "uloop_timeout_cancel", t |-> t, ret |-> r.ret]
    /\ stack' = Charge(stack)
    /\ UNCHANGED <<listVars, sigVars, handleVars, batchVars, fdVars, configVars,
                   pipe, clock, loopVars, sigHist>>

\* the caller stores a deadline in t->time and calls uloop_timeout_add
TimeoutAdd(ctx, t, time) ==
    /\ CanCall(ctx)
    /\ \E r \in {uloop_timeout_add(timeouts,
                       IF tmr[t].pending THEN tmr ELSE [tmr EXCEPT ![t].time = time],
                       t)} :
           /\ timeouts' = r.timeouts /\ tmr' = r.tmr
           /\ last' = [op |-> "uloop_timeout_add", t |-> t, ret |-> r.ret]
    /\ stack' = Charge(stack)
    /\ UNCHANGED <<listVars, sigVars, handleVars, batchVars, fdVars, configVars,
                   pipe, clock, loopVars, sigHist>>

TimeoutRemaining(ctx, t) ==
    /\ CanCall(ctx)
    /\ last' = [op |-> "uloop_timeout_remaining", t |-> t,
                 ret |-> uloop_timeout_remaining(tmr, t, clock)]
    /\ stack' = Charge(stack)
    /\ UNCHANGED <<timerVars, listVars, sigVars, handleVars, batchVars, fdVars,
                   configVars, pipe, clock, loopVars, sigHist>>

ProcessAdd(ctx, p, pid) ==
    /\ CanCall(ctx)
    /\ \E r \in {uloop_process_add(processes,
                   IF proc[p].pending THEN proc ELSE [proc EXCEPT ![p].pid = pid],
                   p)} :
           /\ processes' = r.processes
           /\ proc' = r.proc
           /\ last' = [op |-> "uloop_process_add", p |-> p, ret |-> r.ret]
    /\ stack' = Charge(stack)
    /\ UNCHANGED <<timerVars, signals, usig, sigVars, handleVars, batchVars,
                   fdVars, configVars, pipe, clock, loopVars, sigHist>>

ProcessDelete(ctx, p) ==
    /\ CanCall(ctx)
    /\ \E r \in {uloop_process_delete(processes, proc, p)} :
           /\ processes' = r.processes
           /\ proc' = r.proc
           /\ last' = [op |-> "uloop_process_delete", p |-> p, ret |-> r.ret]
    /\ stack' = Charge(stack)
    /\ UNCHANGED <<timerVars, signals, usig, sigVars, handleVars, batchVars,
                   fdVars, configVars, pipe, clock, loopVars, sigHist>>

\* the pending watchers of a signal number
Watching(signo) == {w \in SigWatchers : usig[w].pending /\ usig[w].signo = signo}

\* the caller sets s->signo before uloop_signal_add
SignalAdd(ctx, s, signo) ==
    /\ CanCall(ctx)
    /\ \E r \in {uloop_signal_add(signals,
                   IF usig[s].pending THEN usig ELSE [usig EXCEPT ![s].signo = signo],
                   sigact, s)} :
           /\ signals' = r.signals
           /\ usig' = r.usig
           /\ sigact' = r.sigact
           /\ last' = [op |-> "uloop_signal_add", s |-> s, ret |-> r.ret]
           /\ sig_before' = IF r.ret = 0 /\ Watching(signo) = {}
                             THEN [sig_before EXCEPT ![signo] = sigact[signo]]
                             ELSE sig_before
    /\ stack' = Charge(stack)
    /\ UNCHANGED <<timerVars, processes, proc, old_sig, handleVars, batchVars,
                   fdVars, configVars, pipe, clock, loopVars, sig_start>>

SignalDelete(ctx, s) ==
    /\ CanCall(ctx)
    /\ \E r \in {uloop_signal_delete(signals, usig, sigact, s)} :
           /\ signals' = r.signals
           /\ usig' = r.usig
           /\ sigact' = r.sigact
           /\ last' = [op |-> "uloop_signal_delete", s |-> s, ret |-> r.ret]
    /\ stack' = Charge(stack)
    /\ UNCHANGED <<timerVars, processes, proc, old_sig, handleVars, batchVars,
                   fdVars, configVars, pipe, clock, loopVars, sigHist>>

\* code outside the loop installs its own handler with sigaction()
ThirdPartyHandler == [sa_handler |-> "third_party", sa_flags |-> {"SA_RESTART"}]
ThirdPartySigaction(signo) ==
    /\ CanCall("main")
    /\ sigact[signo] # ThirdPartyHandler
    /\ sigact' = [sigact EXCEPT ![signo] = ThirdPartyHandler]
    /\ last' = [op |-> "sigaction", signo |-> signo]
    /\ UNCHANGED <<timerVars, listVars, old_sig, handleVars, batchVars, fdVars,
                   configVars, pipe, clock, stack, loopVars, sigHist>>

\* the caller clears uloop_cancelled before it runs the loop again
ClearCancelled ==
    /\ CanCall("main")
    /\ uloop_cancelled
    /\ uloop_cancelled' = FALSE
    /\ UNCHANGED <<timerVars, listVars, sigVars, handleVars, batchVars, fdVars,
                   configVars, global_current_uloop_timeout_reached,
                   uloop_status, do_sigchld, uloop_run_depth, pipe, clock, stack,
                   crashed, historyVars>>

\* ------------------------------------------------------------ initial state
\* the statics of uloop.c as the loader leaves them, the caller's watchers
\* zeroed, and the signal dispositions the process starts with
Dispositions ==
    {SigDfl, [sa_handler |-> SIG_IGN, sa_flags |-> {}],
     [sa_handler |-> "custom", sa_flags |-> {"SA_RESTART"}]}

InitWith(dispositions, observers, sigchld) ==
    /\ timeouts = <<>>
    /\ tmr = [t \in Timers |-> [time |-> ZeroTime, pending |-> FALSE]]
    /\ processes = <<>>
    /\ proc = [p \in ProcWatchers |-> [pid |-> 0, pending |-> FALSE]]
    /\ signals = <<>>
    /\ usig = [s \in SigWatchers |-> [signo |-> 0, pending |-> FALSE, orig |-> SigDfl]]
    /\ poll_fd = -1
    /\ waker_pipe = -1
    /\ uloop_cancelled = FALSE
    /\ global_current_uloop_timeout_reached = FALSE
    /\ uloop_handle_sigchld \in sigchld
    /\ uloop_status = 0
    /\ do_sigchld = FALSE
    /\ cur_fds = <<>>
    /\ cur_fd = 0
    /\ cur_nfds = 0
    /\ uloop_run_depth = 0
    /\ fdw = [w \in Fds |->
                [fd |-> IF w = WakerFd THEN -1 ELSE IF w = "f1" THEN 3 ELSE 4,
                 registered |-> FALSE, flags |-> {}, eof |-> FALSE,
                 error |-> FALSE, nonblock |-> FALSE]]
    /\ old_sig = [s \in {SIGINT, SIGTERM, SIGCHLD} |-> SigDfl]
    /\ sigact \in [Signals -> dispositions]
    /\ backend = [w \in Fds |-> NoReg]
    /\ pipe = <<>>
    /\ open_fds = 0..4
    /\ clock = [tv_sec |-> 0, tv_nsec |-> 0]
    /\ stack = <<>>
    /\ crashed = FALSE
    /\ ret = -1
    /\ caught = <<>>
    /\ nsignals = 0
    /\ nruns = 0
    /\ sig_before = [s \in Signals |-> SigNone]
    /\ sig_start = [s \in Signals |-> SigNone]
    /\ uloop_fd_set_cb \in observers
    /\ observed = <<>>
    /\ last = [op |-> "none"]

\* -------------------------------------------------------------- the run loop
\* A program that initialises the loop, arms a timer, registers a watcher and
\* runs the loop; its callbacks end the loop or run it again, nested.
RunArgs == {-1} \cup {k * TickMs : k \in 0..1}
TimerArgs == {k * TickMs : k \in 0..2}

RunStep ==
    \/ RunStart
    \/ RunReset
    \/ RunTop
    \/ RunCheckCancelled
    \/ RunProcessTimeouts
    \/ RunCheckCancelled2
    \/ RunEventsFetch
    \/ RunEventsResume
    \/ RunEventsLoop
    \/ RunWhile
    \/ RunExit

\* the steps of uloop_handle_processes
ReapStep ==
    \/ ReapWait
    \/ ReapVisit
    \/ ReapNext

Init == InitWith({SigDfl}, {FALSE}, {TRUE})

\* the main program sets the loop up before it runs it
Setup == nruns = 0
Ready == poll_fd >= 0

Next ==
    \/ Setup /\ ~Ready /\ UloopInit(TRUE, TRUE)
    \/ Setup /\ Ready /\ FdAdd("main", "f1", {ULOOP_READ})
    \/ Setup /\ Ready /\ \E ms \in TimerArgs : TimeoutSet("main", <<"t", 1>>, ms)
    \/ Ready /\ \E ms \in RunArgs : CallRunTimeout("main", ms)
    \/ \E ms \in RunArgs : CallRunTimeout("cb", ms)
    \/ CallbackEnd
    \/ CallbackReturn
    \/ RunStep
    \/ SignalConsume
    \/ SignalVisit
    \/ UndefinedBehaviour
    \/ \E signo \in {SIGINT, SIGTERM} : DeliverSigint(signo)
    \/ Setup /\ ClearCancelled

Spec == Init /\ [][Next]_vars

\* ------------------------------------------------- steps the claims speak of
\* the top frame is an active uloop_run_timeout call and the step is its own
\* (a signal handler leaves the stack as it is)
ProgramStep == stack' # stack
TopRun == ~crashed /\ stack # <<>> /\ IsRunFrame(Top)
\* the pc of the frame that is on top now, after the step
TopPcAfter == stack'[Len(stack)].pc
\* uloop_run_events calls uloop_fetch_events
FetchStep == TopIsRun("events") /\ cur_nfds = 0 /\ ProgramStep
\* uloop_run_events calls the callback of a batch entry
DispatchStep == TopIsRun("evloop") /\ Len(stack') = Len(stack) + 1
Nested == Cardinality(RunFrames(stack)) >= 2

\* C1: while uloop_run_timeout is active and not cancelled, every loop
\* iteration goes on to the backend fetch (with the time to the next
\* deadline, or an indefinite wait when no timeout is pending): the step
\* after the second cancellation check enters uloop_run_events.
C1_EveryIterationFetches ==
    [][(TopIsRun("chk2") /\ ~uloop_cancelled /\ ProgramStep)
         => TopPcAfter = "events"]_vars

\* C2: when SIGINT or SIGTERM was delivered to the loop's handler while a
\* uloop_run_timeout call was active, the outermost call returns with
\* uloop_cancelled set and the number of a delivered signal as its status.
C2_StatusIsSignal ==
    (stack = <<>> /\ ret # -1 /\ caught # <<>>)
        => (uloop_cancelled /\ ret \in Range(caught))

\* C3: once the sentinel of a uloop_run_timeout call has fired, that call
\* makes no further backend fetch and dispatches no further fd callback,
\* and without cancellation it returns 0.
C3_NoFetchAfterSentinel ==
    [][/\ (TopRun /\ Top.fired) => ~(FetchStep \/ DispatchStep)
       /\ (TopIsRun("exit") /\ ~uloop_cancelled /\ ProgramStep /\ Len(stack) = 1)
            => ret' = 0]_vars

\* C4: the sentinel is scoped per call: a nested call leaves its loop only on
\* its own sentinel or on cancellation, and a call whose own sentinel has
\* fired leaves its loop at its next loop condition (the firing is not
\* erased by another call).
C4_SentinelScoped ==
    [][/\ (TopIsRun("while") /\ Top.fired /\ ProgramStep) => TopPcAfter = "exit"
       /\ (TopIsRun("while") /\ Nested /\ Top.timeout >= 0 /\ ProgramStep
             /\ TopPcAfter = "exit")
            => (Top.fired \/ uloop_cancelled)]_vars

\* C5 as stated: once uloop_cancelled is set no level starts a backend fetch
\* or dispatches a batch entry, and a call entered while it is set never does.
C5_NoFetchOnceCancelled ==
    [][/\ uloop_cancelled => ~(FetchStep \/ DispatchStep)
       /\ (TopRun /\ Top.entered_cancelled) => ~(FetchStep \/ DispatchStep)]_vars

\* C5 amended: uloop_cancelled is sticky while a run is active; a level that
\* examines it while set (after child reaping, after timer firing, at the
\* loop condition) goes to its exit; a call entered while it is set never
\* fetches or dispatches; and a fetch or dispatch with the flag set happens
\* only when a SIGINT/SIGTERM handler set it behind the level's last check.
C5_CancelExitsAtNextCheck ==
    [][/\ (uloop_cancelled /\ stack # <<>>) => uloop_cancelled'
       /\ (uloop_cancelled /\ ProgramStep
             /\ (TopIsRun("chk1") \/ TopIsRun("chk2") \/ TopIsRun("while")))
            => TopPcAfter = "exit"
       /\ (TopRun /\ Top.entered_cancelled) => ~(FetchStep \/ DispatchStep)
       /\ (uloop_cancelled /\ (FetchStep \/ DispatchStep)) => caught # <<>>]_vars

\* both levels of a nested run are unwinding on the flag
C5_Witness ==
    /\ uloop_cancelled
    /\ Nested
    /\ TopIsRun("exit")
    /\ Top.entered_cancelled

\* ------------------------------------------------------------ fd watchers
\* A program that registers, re-registers and deletes two fd watchers, from
\* the main program and from inside their callbacks, with and without an
\* observer installed.
FdFlagArgs ==
    {{ULOOP_READ}, {ULOOP_READ, ULOOP_EDGE_TRIGGER}, {ULOOP_EDGE_TRIGGER}, {}}

InitFd == InitWith({SigDfl}, BOOLEAN, {TRUE})

NextFd ==
    \/ Setup /\ ~Ready /\ UloopInit(TRUE, TRUE)
    \/ Setup /\ \E w \in UserFds, flags \in FdFlagArgs : FdAdd("main", w, flags)
    \/ Setup /\ \E w \in UserFds : FdDelete("main", w)
    \/ Ready /\ CallRunTimeout("main", TickMs)
    \/ CallRunTimeout("cb", 0)
    \/ \E w \in UserFds, flags \in FdFlagArgs : FdAdd("cb", w, flags)
    \/ \E w \in UserFds : FdDelete("cb", w)
    \/ CallbackReturn
    \/ RunStep
    \/ UndefinedBehaviour

SpecFd == InitFd /\ [][NextFd]_vars

\* flag words with neither ULOOP_READ nor ULOOP_WRITE
FlagsWithoutRW == SUBSET {ULOOP_EDGE_TRIGGER, ULOOP_BLOCKING}

\* C6: in every state of the program, uloop_fd_add(w, flags) with neither
\* READ nor WRITE in flags returns what uloop_fd_delete(w) returns and leaves
\* the watcher, the backend registration, the pending batch, the fd stack
\* and the observer's calls as uloop_fd_delete(w) leaves them; and
\* uloop_fd_delete of an unregistered watcher returns 0, changes neither the
\* watcher nor the backend and does not call the observer.
C6_AddWithoutRWIsDelete ==
    \A w \in UserFds :
        LET D == uloop_fd_delete(Prog, w)
        IN  /\ \A flags \in FlagsWithoutRW : uloop_fd_add(Prog, w, flags) = D
            /\ ~fdw[w].registered =>
                  /\ D.ret = 0
                  /\ D.fdw = fdw
                  /\ D.backend = backend
                  /\ D.observed = <<>>

\* a callback has called uloop_fd_add without READ or WRITE on a registered
\* watcher that had an entry in the pending batch: the watcher is
\* unregistered, the entry nulled and the observer told
C6_Witness ==
    /\ stack # <<>>
    /\ last.op = "uloop_fd_add"
    /\ last.flags = {ULOOP_EDGE_TRIGGER}
    /\ last.ret = 0
    /\ ~fdw[last.w].registered
    /\ backend[last.w] = NoReg
    /\ \E i \in (cur_fd + 1)..(cur_fd + cur_nfds) : cur_fds[i].fd = NULL
    /\ observed # <<>>
    /\ observed[Len(observed)] = <<last.w, {}>>

\* -------------------------------------------------------- signal watchers
\* A program that may initialise the loop and then adds and deletes two
\* signal watchers, on SIGUSR1 and on SIGCHLD (whose handler is already the
\* bridge once the loop is initialised), in any order.
SigArgs == {SIGUSR1, SIGCHLD}
NeverWatched == \A signo \in Signals : sig_before[signo] = SigNone

InitSig ==
    /\ InitWith(Dispositions, {FALSE}, {TRUE})
    /\ \A signo \in Signals \ SigArgs : sigact[signo] = SigDfl

NextSig ==
    \/ NeverWatched /\ ~Ready /\ UloopInit(TRUE, TRUE)
    \/ \E s \in SigWatchers, signo \in SigArgs : SignalAdd("main", s, signo)
    \/ \E s \in SigWatchers : SignalDelete("main", s)

SpecSig == InitSig /\ [][NextSig]_vars

\* C7: once a signal number has had watchers and every one of them has been
\* deleted, with nobody but uloop_signal_add and uloop_signal_delete
\* changing its disposition in between, the installed sigaction equals the
\* one that was installed before the first watcher was added.
C7_SigactionRestored ==
    \A signo \in Signals :
        (sig_before[signo] # SigNone /\ Watching(signo) = {})
            => sigact[signo] = sig_before[signo]

\* two watchers shared a signal number whose disposition was not the
\* bridge, and the last of them has just been deleted
C7_Witness ==
    /\ last.op = "uloop_signal_delete"
    /\ last.ret = 0
    /\ \A s \in SigWatchers : usig[s].signo = SIGUSR1 /\ ~usig[s].pending
    /\ sig_before[SIGUSR1].sa_handler = "custom"
    /\ \E s \in SigWatchers : usig[s].orig.sa_handler = "uloop_signal_wake"

\* the same program with code outside the loop that installs its own handler
\* at any moment between the calls
NextSig3 ==
    \/ NextSig
    \/ \E signo \in SigArgs : ThirdPartySigaction(signo)

SpecSig3 == InitSig /\ [][NextSig3]_vars

\* C8: a uloop_signal_delete call that finds another handler than
\* uloop_signal_wake installed for the watcher's signal leaves the installed
\* sigaction as it is.
C8_DeleteKeepsForeignHandler ==
    [][\A s \in SigWatchers :
          (/\ usig[s].pending
           /\ ~usig'[s].pending
           /\ sigact[usig[s].signo].sa_handler # "uloop_signal_wake")
            => sigact'[usig[s].signo] = sigact[usig[s].signo]]_vars

\* ------------------------------------------------------------ init and done
\* A program that initialises the loop (the kernel may refuse the backend fd
\* or the pipe), arms a timer, adds a process and a signal watcher, and
\* shuts the loop down, any number of times, from every combination of
\* initial dispositions of the loop's four signals.
InitDone ==
    /\ InitWith(Dispositions, {FALSE}, BOOLEAN)
    /\ \A signo \in Signals \ LoopSignals : sigact[signo] = SigDfl

NextDone ==
    \/ ~Ready /\ \E pollOk, pipeOk \in BOOLEAN : UloopInit(pollOk, pipeOk)
    \/ UloopDone
    \/ Ready /\ TimeoutSet("main", <<"t", 1>>, TickMs)
    \/ Ready /\ ProcessAdd("main", "p1", 1)
    \/ Ready /\ SignalAdd("main", "s1", SIGUSR1)

SpecDone == InitDone /\ [][NextDone]_vars

\* C9: for each of SIGINT, SIGTERM, SIGCHLD and SIGPIPE, a disposition that
\* was not SIG_DFL before uloop_init is the installed one in every later
\* state, and after uloop_done the installed disposition is the one from
\* before uloop_init.
C9_InitDoneKeepsDispositions ==
    \A signo \in LoopSignals :
        sig_start[signo] # SigNone =>
            /\ sig_start[signo].sa_handler # SIG_DFL
                  => sigact[signo] = sig_start[signo]
            /\ last.op = "uloop_done" => sigact[signo] = sig_start[signo]

\* C10: after uloop_done no timeout, process watcher or signal watcher is
\* pending or linked, the backend fd and both pipe ends are closed and their
\* handles reset, and another uloop_done changes nothing.
C10_DoneClearsEverything ==
    last.op = "uloop_done" =>
        /\ timeouts = <<>> /\ \A t \in Timers : ~tmr[t].pending
        /\ processes = <<>> /\ \A p \in ProcWatchers : ~proc[p].pending
        /\ signals = <<>> /\ \A s \in SigWatchers : ~usig[s].pending
        /\ poll_fd = -1 /\ waker_pipe = -1
        /\ open_fds = 0..4
        /\ uloop_done(Prog) = Prog

\* ---------------------------------------------------------- timer arithmetic
\* A program that sets, queries and cancels one timeout while time passes
\* between its calls; the clock values and the millisecond arguments sit on
\* both sides of every carry and truncation of the arithmetic.
MaxMs == 2000000
ClockValues ==
    {[tv_sec |-> sec, tv_nsec |-> nsec] :
        sec \in {0, 1},
        nsec \in {0, 999, 1000999, 500000000, 999001000, 999999999}}
MsArgs ==
    {-MaxMs, -1500, -1001, -1000, -999, -1, 0, 1, 999, 1000, 1001, 1500, MaxMs}

ClockNs(ts) == ts.tv_sec * 1000000000 + ts.tv_nsec
Usecs(tv) == tv.tv_sec * 1000000 + tv.tv_usec

\* time passes while the main program runs
ClockAdvance(values) ==
    /\ CanCall("main")
    /\ \E ts \in values : ClockNs(ts) > ClockNs(clock) /\ clock' = ts
    /\ UNCHANGED <<timerVars, listVars, sigVars, handleVars, batchVars, fdVars,
                   uloop_handle_sigchld, uloop_fd_set_cb, pipe, stack, loopVars,
                   sigHist, last>>

NextTime ==
    \/ ClockAdvance(ClockValues)
    \/ \E ms \in MsArgs : TimeoutSet("main", <<"t", 1>>, ms)
    \/ TimeoutCancel("main", <<"t", 1>>)
    \/ TimeoutRemaining("main", <<"t", 1>>)

SpecTime == Init /\ [][NextTime]_vars

\* C11: at every clock value and for every millisecond argument t,
\* uloop_timeout_set leaves the timeout pending with the deadline now + t ms,
\* and uloop_timeout_remaining at the same clock value returns t; for a
\* timeout that is not pending uloop_timeout_remaining returns -1.
C11_SetThenRemaining ==
    \A t \in UserTimers :
        /\ ~tmr[t].pending => uloop_timeout_remaining(tmr, t, clock) = -1
        /\ \A ms \in MsArgs :
              LET r == uloop_timeout_set(timeouts, tmr, t, ms, clock)
              IN  /\ r.ret = 0
                  /\ r.tmr[t].pending
                  /\ Usecs(r.tmr[t].time) = Usecs(uloop_gettime(clock)) + ms * 1000
                  /\ uloop_timeout_remaining(r.tmr, t, clock) = ms

\* the program has set a timeout to 999 ms at a clock value of 1000 us, which
\* leaves tv_usec at exactly 1000000 (no carry), and has read back 999
C11_Witness ==
    /\ last.op = "uloop_timeout_remaining"
    /\ last.ret = 999
    /\ uloop_gettime(clock).tv_usec = 1000
    /\ tmr[<<"t", 1>>].pending
    /\ tmr[<<"t", 1>>].time.tv_usec = 1000000

\* ------------------------------------------------------------- timer firing
\* A program that arms two timeouts at clock values less than a millisecond
\* apart, some through uloop_timeout_set and some with deadlines of its own
\* through uloop_timeout_add, and then runs the loop with a timeout of 0.
OrderClocks ==
    {[tv_sec |-> 0, tv_nsec |-> usec * 1000] : usec \in {200, 999, 1000, 1999}}
OrderMs == {0, 1}
OrderTimes == {[tv_sec |-> 0, tv_usec |-> usec] : usec \in {500, 1500}}

NextOrder ==
    \/ Setup /\ ~Ready /\ UloopInit(TRUE, TRUE)
    \/ Setup /\ Ready /\ ClockAdvance(OrderClocks)
    \/ Setup /\ Ready /\ \E t \in UserTimers, ms \in OrderMs : TimeoutSet("main", t, ms)
    \/ Setup /\ Ready /\ \E t \in UserTimers, time \in OrderTimes :
                            TimeoutAdd("main", t, time)
    \/ Setup /\ Ready /\ \E t \in UserTimers : TimeoutCancel("main", t)
    \/ Ready /\ CallRunTimeout("main", 0)
    \/ CallbackReturn
    \/ RunStart
    \/ RunReset
    \/ RunTop
    \/ RunCheckCancelled
    \/ RunProcessTimeouts
    \/ RunCheckCancelled2
    \/ RunEventsFetch
    \/ RunEventsLoop
    \/ RunWhile
    \/ RunExit
    \/ UndefinedBehaviour

SpecOrder == Init /\ [][NextOrder]_vars

\* uloop_process_timeouts calls the callback of the user timeout t
FireStep(t) ==
    /\ TopIsRun("ptimeouts")
    /\ Len(stack') = Len(stack) + 1
    /\ stack'[Len(stack')] = TimeoutCbFrame(t)

\* C12: a timeout's callback is invoked only when its deadline is at or
\* before the sampled current time, and callbacks are invoked in ascending
\* deadline order: a timeout never fires after one whose deadline is later.
C12_FiresInDeadlineOrder ==
    [][\A b \in UserTimers :
          FireStep(b) =>
              /\ Usecs(tmr[b].time) <= Usecs(Top.tv)
              /\ last.op = "timeout_cb" => Usecs(last.time) <= Usecs(tmr[b].time)]_vars

\* ---------------------------------------------------- the edge-trigger stack
\* A program that registers its watchers level- or edge-triggered and runs
\* the loop; its fd callbacks register and delete watchers and run the loop
\* again, nested, long enough for the backend to report further events.
StackFlagArgs == {{ULOOP_READ}, {ULOOP_READ, ULOOP_EDGE_TRIGGER}}

NextStack ==
    \/ Setup /\ ~Ready /\ UloopInit(TRUE, TRUE)
    \/ Setup /\ Ready /\ \E w \in UserFds, flags \in StackFlagArgs :
                            FdAdd("main", w, flags)
    \/ Ready /\ CallRunTimeout("main", TickMs)
    \/ CallRunTimeout("cb", TickMs)
    \/ \E w \in UserFds, flags \in StackFlagArgs : FdAdd("cb", w, flags)
    \/ \E w \in UserFds : FdDelete("cb", w)
    \/ CallbackReturn
    \/ RunStep
    \/ UndefinedBehaviour

SpecStack == Init /\ [][NextStack]_vars

\* the entries of the batch that are still to be dispatched
PendingEntries(S) == {S.cur_fds[i] : i \in (S.cur_fd + 1)..(S.cur_fd + S.cur_nfds)}
\* the do-while of uloop_run_events calls the callback of its frame again
ReinvokeStep ==
    /\ TopIsCb
    /\ IsFdFrame(Top)
    /\ stack' = AfterCallback(stack)
    /\ Len(stack') = Len(stack)

\* C13: uloop_fd_delete(w) called inside an fd callback leaves no pending
\* batch entry that refers to w, and the re-invoke loop of a frame does not
\* call the callback of a watcher again that has been deleted and is not
\* registered.
C13_DeleteStopsDispatch ==
    [][/\ \A w \in UserFds :
             TopIsCb => \A e \in PendingEntries(uloop_fd_delete(Prog, w)) : e.fd # w
       /\ ReinvokeStep => fdw[Top.cb].registered]_vars

\* the frames of the callback of watcher w that are on the stack
FramesOf(w) == {i \in 1..Len(stack) : IsFdFrame(stack[i]) /\ stack[i].cb = w}

\* C14: while the callback of an edge-triggered watcher is on the stack, an
\* event a nested run delivers for that watcher does not enter the callback
\* a second time (it is folded into the frame instead).
C14_EdgeTriggeredNotReentered ==
    [][\A w \in UserFds :
          (/\ DispatchStep
           /\ stack'[Len(stack')] = FdCbFrame(w, stack'[Len(stack')].arg)
           /\ ULOOP_EDGE_TRIGGER \in fdw[w].flags)
          => FramesOf(w) = {}]_vars

\* ------------------------------------------------------------ child reaping
\* A program that watches child processes, runs the loop and receives
\* SIGCHLD; the watchers' callbacks add and delete watchers.

NextProc ==
    \/ Setup /\ ~Ready /\ UloopInit(TRUE, TRUE)
    \/ Setup /\ Ready /\ \E p \in ProcWatchers, pid \in ChildPids : ProcessAdd("main", p, pid)
    \/ Setup /\ Ready /\ \E p \in ProcWatchers : ProcessDelete("main", p)
    \/ Ready /\ CallRunTimeout("main", 0)
    \/ \E p \in ProcWatchers, pid \in ChildPids : ProcessAdd("cb", p, pid)
    \/ \E p \in ProcWatchers : ProcessDelete("cb", p)
    \/ CallbackReturn
    \/ DeliverSigchld
    \/ RunStart
    \/ RunReset
    \/ RunTop
    \/ ReapStep
    \/ RunCheckCancelled
    \/ RunProcessTimeouts
    \/ RunCheckCancelled2
    \/ RunWhile
    \/ RunExit
    \/ UndefinedBehaviour

SpecProc == Init /\ [][NextProc]_vars

\* the list walk of the drain looks at the watcher Top.p
VisitStep ==
    /\ TopIsRun("reaplist")
    /\ Top.p \in ProcWatchers
    /\ ProgramStep

BridgeSigs == {SIGUSR1, SIGRT42}

NextBridge ==
    \/ Setup /\ ~Ready /\ UloopInit(TRUE, TRUE)
    \/ Setup /\ Ready /\ \E s \in SigWatchers, signo \in BridgeSigs :
                            SignalAdd("main", s, signo)
    \/ Ready /\ CallRunTimeout("main", TickMs)
    \/ \E signo \in BridgeSigs : DeliverWake(signo)
    \/ CallbackReturn
    \/ RunStart
    \/ RunReset
    \/ RunTop
    \/ RunCheckCancelled
    \/ RunProcessTimeouts
    \/ RunCheckCancelled2
    \/ RunEventsFetch
    \/ RunEventsLoop
    \/ RunWhile
    \/ RunExit
    \/ ConsumeStep
    \/ UndefinedBehaviour

SpecBridge == Init /\ [][NextBridge]_vars

\* how often one run of signal_consume has called the watcher w
TimesCalled(f, w) == Cardinality({i \in 1..Len(f.called) : f.called[i] = w})

\* C16: when a run of signal_consume ends, every pending signal watcher has
\* been called exactly once if a byte equal to its signal number was read
\* from the pipe in that run and not at all if none was, and it is still
\* pending.
C16_BridgeCallsWatchersOfReadSignals ==
    [][(TopIsConsume("walk") /\ Top.p = "head" /\ ProgramStep) =>
          \A w \in SigWatchers :
              usig[w].pending =>
                  /\ TimesCalled(Top, w) = (IF usig[w].signo \in Top.bytes THEN 1 ELSE 0)
                  /\ usig'[w].pending]_vars

\* C17: the timeout list is in non-decreasing deadline order, and a timeout
\* is pending exactly when it is linked in the list.
C17_ListSortedByDeadline ==
    /\ \A i, j \in 1..Len(timeouts) :
          i < j => Usecs(tmr[timeouts[i]].time) <= Usecs(tmr[timeouts[j]].time)
    /\ \A t \in UserTimers : tmr[t].pending <=> t \in Range(timeouts)

\* C18: the process list is in ascending pid order without a watcher twice,
\* a watcher is pending exactly when it is linked, uloop_process_add of a
\* pending watcher and uloop_process_delete of one that is not pending
\* return -1 and change nothing, and uloop_process_add links a watcher
\* behind the watchers of the same pid and leaves the others in their order.
C18_ProcessListSorted ==
    /\ \A i, j \in 1..Len(processes) :
          i < j => /\ proc[processes[i]].pid <= proc[processes[j]].pid
                   /\ processes[i] # processes[j]
    /\ \A p \in ProcWatchers :
          /\ proc[p].pending <=> p \in Range(processes)
          /\ proc[p].pending =>
                uloop_process_add(processes, proc, p) =
                    [ret |-> -1, processes |-> processes, proc |-> proc]
          /\ ~proc[p].pending =>
                /\ uloop_process_delete(processes, proc, p) =
                      [ret |-> -1, processes |-> processes, proc |-> proc]
                /\ \A pid \in ChildPids :
                      LET r == uloop_process_add(processes,
                                                 [proc EXCEPT ![p].pid = pid], p)
                          at == CHOOSE i \in 1..Len(r.processes) : r.processes[i] = p
                      IN  /\ r.ret = 0
                          /\ Remove(r.processes, p) = processes
                          /\ \A i \in 1..Len(r.processes) :
                                /\ i < at => r.proc[r.processes[i]].pid <= pid
                                /\ i > at => r.proc[r.processes[i]].pid > pid

\* a callback of the drain has called uloop_process_add on a watcher that is
\* pending, while two watchers of one pid are linked
C18_Witness ==
    /\ ~crashed
    /\ stack # <<>> /\ Top.kind = "pcb"
    /\ last.op = "uloop_process_add" /\ last.ret = -1
    /\ Len(processes) = 2
    /\ proc[processes[1]].pid = proc[processes[2]].pid

\* C19: the timeout list never holds the sentinel of a uloop_run_timeout
\* call that has returned.
C19_NoSentinelOfReturnedCall == Dangling = {}

\* C20: as long as a signal number has a pending watcher, and nobody but the
\* loop changes its disposition, the installed handler is uloop_signal_wake.
C20_BridgeInstalledWhileWatched ==
    \A signo \in Signals :
        Watching(signo) # {} => sigact[signo].sa_handler = "uloop_signal_wake"

====
